---- MODULE Spec2Model ----
(***************************************************************************)
(* A model of the field-pattern catalog (FieldPatternConfig) and of the    *)
(* sample validator of the schema data profiler.                           *)
(*                                                                         *)
(* Python strings that the code inspects character by character (column    *)
(* names, keywords, sample values) are tuples of one-character strings.    *)
(* A Python dict that the code iterates (self.patterns) is a sequence of   *)
(* entries in insertion order.  A call that raises is a result whose exc   *)
(* field names the exception.                                              *)
(***************************************************************************)
EXTENDS Integers, Sequences, FiniteSets, TLC

VARIABLES files, config_file, patterns, pid, last, nops, exported, rd, vs, hist

vars == <<files, config_file, patterns, pid, last, nops, exported, rd, vs, hist>>

(* ------------------------------ bounds -------------------------------- *)

\* how many catalog-changing or file-changing calls one behaviour makes
MaxOps == 3

\* how many sample values one _validate_field_sample call gets
MaxSample == 4

(* ------------------------------ strings ------------------------------- *)

UpperChars == <<"A","B","C","D","E","F","G","H","I","J","K","L","M",
                "N","O","P","Q","R","S","T","U","V","W","X","Y","Z">>

LowerChars == <<"a","b","c","d","e","f","g","h","i","j","k","l","m",
                "n","o","p","q","r","s","t","u","v","w","x","y","z">>

Digits == {"0","1","2","3","4","5","6","7","8","9"}

\* str.lower() on one character
lower_char(c) ==
    IF \E i \in 1..26 : UpperChars[i] = c
    THEN LowerChars[CHOOSE i \in 1..26 : UpperChars[i] = c]
    ELSE c

\* str.lower()
lower(s) == [i \in 1..Len(s) |-> lower_char(s[i])]

\* Python's  k in s  for two strings
IsSubstr(k, s) ==
    \E i \in 0..(Len(s) - Len(k)) : SubSeq(s, i + 1, i + Len(k)) = k

(* --------------------------- pattern configs --------------------------- *)

\* keys a validation dict does not carry read as these
NoValidation ==
    [kind |-> "absent", type |-> "", pattern |-> "", description |-> "",
     hasThreshold |-> FALSE, threshold |-> <<0, 1>>,
     hasMin |-> FALSE, min |-> 0, hasMax |-> FALSE, max |-> 0]

\* a validation entry that is JSON null / Python None
NullValidation == [NoValidation EXCEPT !.kind = "null"]

Rule(type, pattern, description, hasThreshold, threshold) ==
    [NoValidation EXCEPT !.kind = "map", !.type = type, !.pattern = pattern,
                         !.description = description,
                         !.hasThreshold = hasThreshold, !.threshold = threshold]

Pattern(keywords, validation, field_type) ==
    [hasKeywords |-> TRUE, keywords |-> keywords, kwKind |-> "list",
     validation |-> validation, hasFieldType |-> TRUE, field_type |-> field_type]

S_email == <<"e","m","a","i","l">>
S_mail  == <<"m","a","i","l">>
S_phone == <<"p","h","o","n","e">>
S_tel   == <<"t","e","l">>
S_id    == <<"i","d">>
S_key   == <<"k","e","y">>
S_sku   == <<"s","k","u">>
S_SKU   == <<"S","K","U">>

\* the regular expressions the catalog uses, by name
RE_EMAIL == "^[\\w\\.-]+@[\\w\\.-]+\\.[\\w]+$"
RE_PHONE == "^[\\d\\s\\-\\(\\)]{7,}$"
RE_BAD   == "([A-Z"

Entry(name, cfg) == [name |-> name, cfg |-> cfg]

_get_default_patterns ==
    << Entry("email",
             Pattern(<<S_email, S_mail>>,
                     Rule("regex", RE_EMAIL, "Email address format", TRUE, <<7, 10>>),
                     "email_field")),
       Entry("phone",
             Pattern(<<S_phone, S_tel>>,
                     Rule("regex", RE_PHONE, "Phone number format", TRUE, <<7, 10>>),
                     "phone_field")),
       Entry("identifier",
             Pattern(<<S_id, S_key>>,
                     Rule("numeric", "", "Numeric identifier", TRUE, <<8, 10>>),
                     "identifier_field")) >>


\* the pattern configs a caller registers with add_custom_pattern, or a
\* hand-written source document holds
CFG_sku ==
    Pattern(<<S_sku>>,
            [Rule("numeric_range", "", "", FALSE, <<0, 1>>)
                EXCEPT !.hasMin = TRUE, !.min = 1, !.hasMax = TRUE, !.max = 10],
            "sku_field")

\* keywords in upper case, given as a tuple; a regex that does not compile
CFG_upper ==
    [Pattern(<<S_SKU>>, Rule("regex", RE_BAD, "", TRUE, <<1, 2>>), "sku_field")
        EXCEPT !.kwKind = "tuple"]

\* a dict with neither 'keywords' nor 'validation' nor 'field_type'
CFG_bare ==
    [hasKeywords |-> FALSE, keywords |-> <<>>, kwKind |-> "list",
     validation |-> NoValidation, hasFieldType |-> FALSE, field_type |-> ""]

\* "validation": null
CFG_nullval == Pattern(<<S_mail>>, NullValidation, "mail_field")

\* keywords given as a Python set, which json cannot serialize
CFG_set ==
    [Pattern(<<S_tel>>, Rule("boolean_like", "", "", FALSE, <<0, 1>>), "tel_field")
        EXCEPT !.kwKind = "set"]

CustomConfigs == {CFG_sku, CFG_upper, CFG_bare, CFG_nullval, CFG_set}

CustomNames == {"sku", "email"}

RemoveNames == {"sku", "email", "zip"}

ColumnNames ==
    { <<"E","m","a","i","l">>, <<"m","a","i","l","_","i","d">>,
      <<"s","k","u">>, <<"S","K","U","_","N","O">>, <<"z","i","p">> }

(* ----------------------- the catalog (a Python dict) -------------------- *)

Names(cat) == [i \in 1..Len(cat) |-> cat[i].name]

HasName(cat, name) == \E i \in 1..Len(cat) : cat[i].name = name

IndexOf(cat, name) == CHOOSE i \in 1..Len(cat) : cat[i].name = name

\* a version in which an assigned key always goes last
dict_set_to_end(cat, name, cfg) ==
    Append(SelectSeq(cat, LAMBDA e : e.name # name), Entry(name, cfg))

\* d[name] = cfg : an existing key keeps its position, a new key goes last
dict_set(cat, name, cfg) ==
    IF HasName(cat, name)
    THEN [cat EXCEPT ![IndexOf(cat, name)] = Entry(name, cfg)]
    ELSE Append(cat, Entry(name, cfg))

\* del d[name]
dict_del(cat, name) ==
    LET i == IndexOf(cat, name)
    IN  SubSeq(cat, 1, i - 1) \o SubSeq(cat, i + 1, Len(cat))

(* --------------------------- identify_field_type ------------------------ *)

Returned(found, name, cfg) ==
    [exc |-> "none", found |-> found, name |-> name, cfg |-> cfg]

Raised(exc) == [exc |-> exc, found |-> FALSE, name |-> "", cfg |-> CFG_bare]

RECURSIVE scan_keywords(_, _, _)
\* for keyword in pattern_config['keywords']: if keyword in column_lower
scan_keywords(keywords, j, column_lower) ==
    IF j > Len(keywords) THEN FALSE
    ELSE IF IsSubstr(keywords[j], column_lower) THEN TRUE
    ELSE scan_keywords(keywords, j + 1, column_lower)

RECURSIVE scan_patterns(_, _, _)
\* for pattern_name, pattern_config in self.patterns.items()
scan_patterns(cat, i, column_lower) ==
    IF i > Len(cat) THEN Returned(FALSE, "", CFG_bare)
    ELSE IF ~cat[i].cfg.hasKeywords THEN Raised("KeyError")
    ELSE IF scan_keywords(cat[i].cfg.keywords, 1, column_lower)
         THEN Returned(TRUE, cat[i].name, cat[i].cfg)
    ELSE scan_patterns(cat, i + 1, column_lower)

RECURSIVE scan_patterns_backwards(_, _, _)
\* a version in which the last matching pattern wins
scan_patterns_backwards(cat, i, column_lower) ==
    IF i < 1 THEN Returned(FALSE, "", CFG_bare)
    ELSE IF ~cat[i].cfg.hasKeywords THEN Raised("KeyError")
    ELSE IF scan_keywords(cat[i].cfg.keywords, 1, column_lower)
         THEN Returned(TRUE, cat[i].name, cat[i].cfg)
    ELSE scan_patterns_backwards(cat, i - 1, column_lower)

identify_last_match(cat, column_name) ==
    scan_patterns_backwards(cat, Len(cat), lower(column_name))

identify_field_type(cat, column_name) ==
    scan_patterns(cat, 1, lower(column_name))


(* ------------------------------- files --------------------------------- *)

SourceFile == "field_patterns.json"
ExportFile == "exported_patterns.json"
FileNames  == {SourceFile, ExportFile}

\* a file is missing, not accessible, not JSON, or a JSON object with one
\* top-level member  key: {name: config, ...}
Missing == [st |-> "missing", key |-> "", body |-> <<>>]
Locked  == [st |-> "locked",  key |-> "", body |-> <<>>]
Garbage == [st |-> "garbage", key |-> "", body |-> <<>>]
JsonDoc(key, body) == [st |-> "json", key |-> key, body |-> body]

\* what the maintainer of the source document may leave in it
DOC_sku == <<Entry("sku", CFG_sku), _get_default_patterns[1]>>
SourceStates ==
    { Missing, Locked, Garbage, JsonDoc("patterns", DOC_sku),
      JsonDoc("field_patterns", DOC_sku) }

(* ---------------------------- json.dump / load -------------------------- *)

\* json writes a list and a tuple as an array, and refuses a set
Serializable(cfg) == cfg.kwKind # "set"

to_json(cfg) == [cfg EXCEPT !.kwKind = "list"]

\* json.dump({'field_patterns': self.patterns}, f): the text is written as it
\* is produced, so a value json refuses leaves a truncated document behind
json_dump(cat) ==
    IF \A i \in 1..Len(cat) : Serializable(cat[i].cfg)
    THEN [exc |-> "none",
          file |-> JsonDoc("field_patterns",
                           [i \in 1..Len(cat) |-> Entry(cat[i].name, to_json(cat[i].cfg))])]
    ELSE [exc |-> "TypeError", file |-> Garbage]

\* the try block of _load_patterns: open, json.load, config['field_patterns']
read_config(file) ==
    CASE file.st = "missing" -> [exc |-> "FileNotFoundError", value |-> <<>>]
      [] file.st = "locked"  -> [exc |-> "PermissionError", value |-> <<>>]
      [] file.st = "garbage" -> [exc |-> "JSONDecodeError", value |-> <<>>]
      [] OTHER -> IF file.key = "field_patterns"
                  THEN [exc |-> "none", value |-> file.body]
                  ELSE [exc |-> "KeyError", value |-> <<>>]

\* a version that lacks the final  except Exception  clause
_load_patterns_two_handlers(file) ==
    LET r == read_config(file)
    IN  CASE r.exc = "none" -> r
          [] r.exc = "FileNotFoundError" -> [exc |-> "none", value |-> _get_default_patterns]
          [] r.exc = "JSONDecodeError" -> [exc |-> "none", value |-> _get_default_patterns]
          [] OTHER -> r

_load_patterns(file) ==
    LET r == read_config(file)
    IN  CASE r.exc = "none" -> r
          [] r.exc = "FileNotFoundError" -> [exc |-> "none", value |-> _get_default_patterns]
          [] r.exc = "JSONDecodeError" -> [exc |-> "none", value |-> _get_default_patterns]
          [] OTHER -> [exc |-> "none", value |-> _get_default_patterns]

\* a version that writes the mapping under another top-level key
export_patterns_other_key(cat, file) ==
    IF file.st = "locked"
    THEN [ret |-> FALSE, file |-> file]
    ELSE LET w == json_dump(cat)
         IN  [ret |-> (w.exc = "none"),
              file |-> IF w.exc = "none" THEN JsonDoc("patterns", w.file.body) ELSE w.file]

\* a version that reports success whatever json.dump did
export_patterns_unchecked(cat, file) ==
    IF file.st = "locked"
    THEN [ret |-> FALSE, file |-> file]
    ELSE [ret |-> TRUE, file |-> json_dump(cat).file]

\* export_patterns(filename): what it returns and what the file holds after
export_patterns(cat, file) ==
    IF file.st = "locked"
    THEN [ret |-> FALSE, file |-> file]
    ELSE LET w == json_dump(cat)
         IN  [ret |-> (w.exc = "none"), file |-> w.file]

(* --------------------------- get_pattern_summary ------------------------ *)

validation_type_of(cfg) ==
    IF cfg.validation.kind = "map" /\ cfg.validation.type # ""
    THEN cfg.validation.type ELSE "unknown"

\* a version that passes over the patterns whose rule names no type
get_pattern_summary_skips_untyped(cat) ==
    IF \E i \in 1..Len(cat) : cat[i].cfg.validation.kind = "null"
    THEN [exc |-> "AttributeError", total_patterns |-> 0,
          pattern_types |-> <<>>, validation_types |-> {}]
    ELSE [exc |-> "none", total_patterns |-> Len(cat),
          pattern_types |-> Names(cat),
          validation_types |-> {validation_type_of(cat[i].cfg) : i \in 1..Len(cat)}
                                  \ {"unknown"}]

\* every pattern_config.get('validation', {}).get('type', 'unknown'), as a set
get_pattern_summary(cat) ==
    IF \E i \in 1..Len(cat) : cat[i].cfg.validation.kind = "null"
    THEN [exc |-> "AttributeError", total_patterns |-> 0,
          pattern_types |-> <<>>, validation_types |-> {}]
    ELSE [exc |-> "none", total_patterns |-> Len(cat),
          pattern_types |-> Names(cat),
          validation_types |-> {validation_type_of(cat[i].cfg) : i \in 1..Len(cat)}]


(* ------------------------------ values --------------------------------- *)

\* a sample value: a str, an int or None.  date says what pandas.to_datetime
\* does with it: "ok", or the exception it raises.
StrV(chars, date) == [ty |-> "str", s |-> chars, n |-> 0, date |-> date]
IntV(n) == [ty |-> "int", s |-> <<>>, n |-> n, date |-> "ok"]
NoneV == [ty |-> "none", s |-> <<>>, n |-> 0, date |-> "ok"]

DigitSeq == <<"0","1","2","3","4","5","6","7","8","9">>

DigitVal(c) == (CHOOSE i \in 1..10 : DigitSeq[i] = c) - 1

RECURSIVE digits_of(_)
\* the decimal digits of a natural number
digits_of(n) ==
    IF n < 10 THEN <<DigitSeq[n + 1]>>
    ELSE Append(digits_of(n \div 10), DigitSeq[(n % 10) + 1])

\* str(value)
str_of(v) ==
    CASE v.ty = "str" -> v.s
      [] v.ty = "int" -> IF v.n < 0 THEN <<"-">> \o digits_of(-v.n) ELSE digits_of(v.n)
      [] OTHER -> <<"N","o","n","e">>

(* ------------------------------- float() -------------------------------- *)

\* a float: finite num/den, an infinity (the sign of num) or nan
Fin(num, den) == [exc |-> "none", kind |-> "fin", num |-> num, den |-> den]
Inf(sign) == [exc |-> "none", kind |-> "inf", num |-> sign, den |-> 1]
NaN == [exc |-> "none", kind |-> "nan", num |-> 0, den |-> 1]
FloatError(exc) == [exc |-> exc, kind |-> "nan", num |-> 0, den |-> 1]

\* a version in which a value on a bound is outside the range: a < b
float_lt(a, b) ==
    /\ a.kind # "nan"
    /\ b.kind # "nan"
    /\ CASE a.kind = "inf" -> (a.num < 0 /\ ~(b.kind = "inf" /\ b.num < 0))
         [] b.kind = "inf" -> b.num > 0
         [] OTHER -> a.num * b.den < b.num * a.den

\* a <= b on floats
float_le(a, b) ==
    /\ a.kind # "nan"
    /\ b.kind # "nan"
    /\ CASE a.kind = "inf" -> (a.num < 0 \/ (b.kind = "inf" /\ b.num > 0))
         [] b.kind = "inf" -> b.num > 0
         [] OTHER -> a.num * b.den <= b.num * a.den

IsSpace(c) == c \in {" ", "\t", "\n"}

RECURSIVE lstrip(_)
lstrip(s) == IF s # <<>> /\ IsSpace(Head(s)) THEN lstrip(Tail(s)) ELSE s

RECURSIVE rstrip(_)
rstrip(s) ==
    IF s # <<>> /\ IsSpace(s[Len(s)]) THEN rstrip(SubSeq(s, 1, Len(s) - 1)) ELSE s

RECURSIVE nat_of(_)
\* the number a string of digits writes
nat_of(ds) ==
    IF ds = <<>> THEN 0
    ELSE 10 * nat_of(SubSeq(ds, 1, Len(ds) - 1)) + DigitVal(ds[Len(ds)])

RECURSIVE pow10(_)
pow10(k) == IF k = 0 THEN 1 ELSE 10 * pow10(k - 1)

AllDigits(s) == \A i \in 1..Len(s) : s[i] \in Digits

\* float() of an unsigned literal: digits with at most one point, inf, nan
\* (exponents and digit-group underscores are not modelled)
parse_unsigned(t, sign) ==
    LET low == lower(t)
        dots == {i \in 1..Len(t) : t[i] = "."}
    IN  IF low \in {<<"i","n","f">>, <<"i","n","f","i","n","i","t","y">>}
        THEN Inf(sign)
        ELSE IF low = <<"n","a","n">> THEN NaN
        ELSE IF Cardinality(dots) > 1 THEN FloatError("ValueError")
        ELSE LET d == IF dots = {} THEN Len(t) + 1 ELSE CHOOSE i \in dots : TRUE
                 ip == SubSeq(t, 1, d - 1)
                 fp == SubSeq(t, d + 1, Len(t))
             IN  IF AllDigits(ip) /\ AllDigits(fp) /\ Len(ip) + Len(fp) > 0
                 THEN Fin(sign * nat_of(ip \o fp), pow10(Len(fp)))
                 ELSE FloatError("ValueError")

\* float(value)
float_of(v) ==
    CASE v.ty = "int" -> Fin(v.n, 1)
      [] v.ty = "none" -> FloatError("TypeError")
      [] OTHER ->
           LET t == rstrip(lstrip(v.s))
           IN  IF t = <<>> THEN FloatError("ValueError")
               ELSE IF t[1] = "-" THEN parse_unsigned(Tail(t), -1)
               ELSE IF t[1] = "+" THEN parse_unsigned(Tail(t), 1)
               ELSE parse_unsigned(t, 1)

(* ------------------------------ re.match -------------------------------- *)

\* [a-zA-Z]
Letters == {UpperChars[i] : i \in 1..26} \cup {LowerChars[i] : i \in 1..26}

\* \w
WordChars == Letters \cup Digits \cup {"_"}

\* \s
SpaceChars == {" ", "\t", "\n"}

\* s[a..b] consists of characters of the class
AllIn(s, a, b, class) == \A i \in a..b : s[i] \in class

\* $ matches at the end, and before a newline that ends the string
EndPositions(s) ==
    {Len(s)} \cup (IF s # <<>> /\ s[Len(s)] = "\n" THEN {Len(s) - 1} ELSE {})

\* [\w\.-]
LocalChars == WordChars \cup {".", "-"}

\* ^[\w\.-]+@[\w\.-]+\.[\w]+$
match_email(s) ==
    \E e \in EndPositions(s) : \E at \in 2..e : \E dot \in (at + 2)..(e - 1) :
        /\ s[at] = "@"
        /\ s[dot] = "."
        /\ AllIn(s, 1, at - 1, LocalChars)
        /\ AllIn(s, at + 1, dot - 1, LocalChars)
        /\ AllIn(s, dot + 1, e, WordChars)

\* [\d\s\-\(\)]
PhoneChars == Digits \cup SpaceChars \cup {"-", "(", ")"}

\* ^[\d\s\-\(\)]{7,}$
match_phone(s) ==
    \E e \in EndPositions(s) : e >= 7 /\ AllIn(s, 1, e, PhoneChars)

\* [a-zA-Z\s\-\'\.]
TextChars == Letters \cup SpaceChars \cup {"-", "'", "."}

\* ^[a-zA-Z\s\-\'\.]+$
match_text(s) ==
    \E e \in EndPositions(s) : e >= 1 /\ AllIn(s, 1, e, TextChars)

\* re.match(pattern, string): the patterns the catalogs of this model use
re_match(pattern, s) ==
    CASE pattern = RE_EMAIL -> [exc |-> "none", matched |-> match_email(s)]
      [] pattern = RE_PHONE -> [exc |-> "none", matched |-> match_phone(s)]
      [] OTHER -> [exc |-> "re.error", matched |-> FALSE]

BoolLike ==
    { <<"t","r","u","e">>, <<"f","a","l","s","e">>, <<"1">>, <<"0">>,
      <<"y","e","s">>, <<"n","o">>, <<"a">>, <<"i">> }

(* -------------------------- validate_field_value ------------------------ *)

Value(b) == [exc |-> "none", ret |-> b]

\* the dispatch inside the try block: a boolean, or the exception that
\* reaches the outer handler
dispatch(validation, value) ==
    CASE validation.type = "regex" ->
            IF validation.pattern # ""
            THEN LET m == re_match(validation.pattern, str_of(value))
                 IN  IF m.exc = "none" THEN Value(m.matched)
                     ELSE [exc |-> m.exc, ret |-> FALSE]
            ELSE Value(TRUE)
      [] validation.type = "numeric" ->
            Value(float_of(value).exc = "none")
      [] validation.type = "numeric_range" ->
            LET num_value == float_of(value)
                min_val == IF validation.hasMin THEN Fin(validation.min, 1) ELSE Inf(-1)
                max_val == IF validation.hasMax THEN Fin(validation.max, 1) ELSE Inf(1)
            IN  IF num_value.exc # "none" THEN Value(FALSE)
                ELSE Value(float_le(min_val, num_value) /\ float_le(num_value, max_val))
      [] validation.type = "date_format" ->
            IF value.date = "ok" THEN Value(TRUE)
            ELSE IF value.date \in {"ValueError", "TypeError"} THEN Value(FALSE)
            ELSE [exc |-> value.date, ret |-> FALSE]
      [] validation.type = "text_format" ->
            Value(match_text(str_of(value)))
      [] validation.type = "boolean_like" ->
            Value(lower(str_of(value)) \in BoolLike)
      [] OTHER -> Value(TRUE)

\* a version without the outer  except Exception  handler
validate_field_value_no_handler(field_type, value, pattern_config) ==
    IF pattern_config.validation.kind = "null"
    THEN [exc |-> "AttributeError", ret |-> FALSE]
    ELSE dispatch(pattern_config.validation, value)

\* a version that counts nothing as valid when the pattern has no rule
validate_field_value_requires_rule(field_type, value, pattern_config) ==
    IF pattern_config.validation.kind = "null"
    THEN [exc |-> "AttributeError", ret |-> FALSE]
    ELSE IF pattern_config.validation.kind = "absent" THEN Value(FALSE)
    ELSE LET r == dispatch(pattern_config.validation, value)
         IN  IF r.exc = "none" THEN r ELSE Value(TRUE)

\* the two  .get  calls stand ahead of the try block; what the dispatch
\* raises, the outer handler turns into True
validate_field_value(field_type, value, pattern_config) ==
    IF pattern_config.validation.kind = "null"
    THEN [exc |-> "AttributeError", ret |-> FALSE]
    ELSE LET r == dispatch(pattern_config.validation, value)
         IN  IF r.exc = "none" THEN r ELSE Value(TRUE)

\* validation.get('threshold', 0.7)
get_validation_threshold(pattern_config) ==
    IF pattern_config.validation.kind = "null"
    THEN [exc |-> "AttributeError", ret |-> <<0, 1>>]
    ELSE [exc |-> "none",
          ret |-> IF pattern_config.validation.hasThreshold
                  THEN pattern_config.validation.threshold ELSE <<7, 10>>]

(* ------------------------- _validate_field_sample ----------------------- *)

\* a version that asks for more than the threshold
exceeds_threshold(validation_percentage, threshold) ==
    validation_percentage[1] * threshold[2] > threshold[1] * validation_percentage[2]

\* validation_percentage >= threshold, on fractions <<numerator, denominator>>
meets_threshold(validation_percentage, threshold) ==
    validation_percentage[1] * threshold[2] >= threshold[1] * validation_percentage[2]

RECURSIVE sample_loop(_, _, _, _, _)
\* for value in sample_values: count the valid ones, describe the others
sample_loop(sample_values, k, pattern_config, valid_count, issues) ==
    IF k > Len(sample_values)
    THEN [exc |-> "none", valid_count |-> valid_count, issues |-> issues]
    ELSE IF ~pattern_config.hasFieldType
    THEN [exc |-> "KeyError", valid_count |-> valid_count, issues |-> issues]
    ELSE LET r == validate_field_value(pattern_config.field_type,
                                       sample_values[k], pattern_config)
         IN  IF r.exc # "none"
             THEN [exc |-> r.exc, valid_count |-> valid_count, issues |-> issues]
             ELSE IF r.ret
             THEN sample_loop(sample_values, k + 1, pattern_config,
                              valid_count + 1, issues)
             ELSE sample_loop(sample_values, k + 1, pattern_config,
                              valid_count, Append(issues, sample_values[k]))

SampleRaised(exc) ==
    [exc |-> exc, is_valid |-> FALSE, valid_percentage |-> <<0, 1>>,
     valid_count |-> 0, total_count |-> 0, threshold |-> <<0, 1>>, issues |-> <<>>]

\* a version that keeps the last three issues: issues[-3:]
_validate_field_sample_last_issues(sample_values, pattern_config) ==
    IF pattern_config.validation.kind = "null" THEN SampleRaised("AttributeError")
    ELSE LET total_count == Len(sample_values)
             l == sample_loop(sample_values, 1, pattern_config, 0, <<>>)
         IN  IF l.exc # "none" THEN SampleRaised(l.exc)
             ELSE IF total_count = 0 THEN SampleRaised("ZeroDivisionError")
             ELSE LET validation_percentage == <<l.valid_count * 100, total_count>>
                      t == get_validation_threshold(pattern_config).ret
                      threshold == <<t[1] * 100, t[2]>>
                  IN  [exc |-> "none",
                       is_valid |-> meets_threshold(validation_percentage, threshold),
                       valid_percentage |-> validation_percentage,
                       valid_count |-> l.valid_count,
                       total_count |-> total_count,
                       threshold |-> threshold,
                       issues |-> SubSeq(l.issues,
                                         IF Len(l.issues) < 3 THEN 1 ELSE Len(l.issues) - 2,
                                         Len(l.issues))]

\* an issue "Invalid value: <value>" is written as the value it names
_validate_field_sample(sample_values, pattern_config) ==
    IF pattern_config.validation.kind = "null" THEN SampleRaised("AttributeError")
    ELSE LET total_count == Len(sample_values)
             l == sample_loop(sample_values, 1, pattern_config, 0, <<>>)
         IN  IF l.exc # "none" THEN SampleRaised(l.exc)
             ELSE IF total_count = 0 THEN SampleRaised("ZeroDivisionError")
             ELSE LET validation_percentage == <<l.valid_count * 100, total_count>>
                      t == get_validation_threshold(pattern_config).ret
                      threshold == <<t[1] * 100, t[2]>>
                  IN  [exc |-> "none",
                       is_valid |-> meets_threshold(validation_percentage, threshold),
                       valid_percentage |-> validation_percentage,
                       valid_count |-> l.valid_count,
                       total_count |-> total_count,
                       threshold |-> threshold,
                       issues |-> SubSeq(l.issues, 1, IF Len(l.issues) < 3
                                                      THEN Len(l.issues) ELSE 3)]

(* ------------------------ FieldPatternConfig calls ---------------------- *)

\* a version that extends the catalog it already holds
reload_patterns_extend(self_patterns, file) ==
    LET r == _load_patterns(file)
    IN  [r EXCEPT !.value = self_patterns \o r.value]

\* a version that keeps the patterns the source does not name: update()
reload_patterns_keeps_custom(self_patterns, file) ==
    LET r == _load_patterns(file)
    IN  [r EXCEPT !.value =
            r.value \o SelectSeq(self_patterns, LAMBDA e : ~HasName(r.value, e.name))]

\* self.patterns = self._load_patterns(); return self.patterns
reload_patterns(self_patterns, file) == _load_patterns(file)

\* a version that puts the pattern at the end whether or not the name is there
add_custom_pattern_append(cat, pattern_name, pattern_config) ==
    [ret |-> TRUE, patterns |-> Append(cat, Entry(pattern_name, pattern_config))]

\* self.patterns[pattern_name] = pattern_config; return True
add_custom_pattern(cat, pattern_name, pattern_config) ==
    [ret |-> TRUE, patterns |-> dict_set(cat, pattern_name, pattern_config)]

\* a version that reports a removal whether or not the name was there
remove_pattern_reports_true(cat, pattern_name) ==
    [ret |-> TRUE,
     patterns |-> IF HasName(cat, pattern_name) THEN dict_del(cat, pattern_name) ELSE cat]

\* a version that reports the removal and leaves the entry where it is
remove_pattern_keeps(cat, pattern_name) ==
    [ret |-> HasName(cat, pattern_name), patterns |-> cat]

\* if pattern_name in self.patterns: del ...; return True; else: return False
remove_pattern(cat, pattern_name) ==
    IF HasName(cat, pattern_name)
    THEN [ret |-> TRUE, patterns |-> dict_del(cat, pattern_name)]
    ELSE [ret |-> FALSE, patterns |-> cat]

(* ------------------------------- state --------------------------------- *)

\* the last call made and what it gave back
Last(op, col, name, out, streak, snap) ==
    [op |-> op, col |-> col, name |-> name, out |-> out,
     streak |-> streak, snap |-> snap]

NoExport == [valid |-> FALSE, dest |-> "", cat |-> <<>>]

\* the catalog a successful export wrote to file f, if f still holds it
ExportedTo(f) ==
    IF exported.valid /\ exported.dest = f THEN <<exported.cat>> ELSE <<>>

RdIdle == [pc |-> "idle"]
VsIdle == [op |-> "idle"]

\* the change add_custom_pattern or remove_pattern made last to the catalog now
\* held: the pattern added, or the added pattern that was then removed
NoChange == [op |-> "none", name |-> "", cfg |-> CFG_bare]

\* a new dict object: neither the current one nor one a running call holds
fresh_object(p, held) == CHOOSE o \in 0..2 : o # p /\ o # held

\* a version that refills the dict it already holds: clear(), then update()
reload_in_place(p, held) == p

\* self.patterns = self._load_patterns(): the attribute is bound to the dict
\* that the load built
reload_object(p, held) == fresh_object(p, held)

\* FieldPatternConfig() with the source document in any condition
Init ==
    /\ \E s \in SourceStates :
          files = [f \in FileNames |-> IF f = SourceFile THEN s ELSE Missing]
    /\ config_file = SourceFile
    /\ patterns = _load_patterns(files[SourceFile]).value
    /\ pid = 0
    /\ last = Last("construct", <<>>, SourceFile,
                   [load |-> _load_patterns(files[SourceFile]),
                    summary |-> get_pattern_summary(patterns)], 0, <<>>)
    /\ nops = 0
    /\ exported = NoExport
    /\ rd = RdIdle
    /\ vs = VsIdle
    /\ hist = NoChange

\* FieldPatternConfig(config_file=f)
Construct(f) ==
    /\ nops < MaxOps
    /\ LET r == _load_patterns(files[f])
       IN  /\ config_file' = f
           /\ patterns' = IF r.exc = "none" THEN r.value ELSE patterns
           /\ pid' = IF r.exc = "none" THEN fresh_object(pid, pid) ELSE pid
           /\ last' = Last("construct", <<>>, f,
                           [load |-> r, summary |-> get_pattern_summary(patterns')],
                           0, ExportedTo(f))
    /\ nops' = nops + 1
    /\ hist' = NoChange
    /\ UNCHANGED <<files, exported, rd, vs>>

\* SchemaDataProfiler.reload_field_patterns: reload_patterns(), then the
\* summary; replaced is the catalog held when the call was made
ReloadFieldPatterns ==
    /\ nops < MaxOps
    /\ LET r == reload_patterns(patterns, files[config_file])
           new == IF r.exc = "none" THEN r.value ELSE patterns
       IN  /\ patterns' = new
           /\ pid' = IF r.exc = "none" THEN reload_object(pid, pid) ELSE pid
           /\ last' = Last("reload", <<>>, config_file,
                           [load |-> r, summary |-> get_pattern_summary(new),
                            replaced |-> patterns],
                           IF last.op = "reload" THEN 2 ELSE 1,
                           ExportedTo(config_file))
    /\ nops' = nops + 1
    /\ hist' = NoChange
    /\ UNCHANGED <<files, config_file, exported, rd, vs>>

AddCustomPattern(name, cfg) ==
    /\ nops < MaxOps
    /\ LET r == add_custom_pattern(patterns, name, cfg)
       IN  /\ patterns' = r.patterns
           /\ last' = Last("add", <<>>, name, r.ret, 0, <<>>)
    /\ nops' = nops + 1
    /\ hist' = [op |-> "add", name |-> name, cfg |-> cfg]
    /\ UNCHANGED <<files, config_file, pid, exported, rd, vs>>

RemovePattern(name) ==
    /\ nops < MaxOps
    /\ LET r == remove_pattern(patterns, name)
       IN  /\ patterns' = r.patterns
           /\ last' = Last("remove", <<>>, name, r.ret, 0, <<>>)
    /\ nops' = nops + 1
    /\ hist' = IF hist.op = "add" /\ hist.name = name
               THEN [hist EXCEPT !.op = "remove"] ELSE hist
    /\ UNCHANGED <<files, config_file, pid, exported, rd, vs>>

ExportPatterns(dest) ==
    /\ nops < MaxOps
    /\ LET r == export_patterns(patterns, files[dest])
       IN  /\ files' = [files EXCEPT ![dest] = r.file]
           /\ exported' = IF r.ret THEN [valid |-> TRUE, dest |-> dest, cat |-> patterns]
                          ELSE IF exported.dest = dest /\ r.file # files[dest]
                               THEN NoExport ELSE exported
           /\ last' = Last("export", <<>>, dest, r.ret, 0, <<>>)
    /\ nops' = nops + 1
    /\ UNCHANGED <<config_file, patterns, pid, rd, vs, hist>>

\* the maintainer rewrites, removes or locks the source document
EditSource(s) ==
    /\ nops < MaxOps
    /\ files[SourceFile] # s
    /\ files' = [files EXCEPT ![SourceFile] = s]
    /\ exported' = IF exported.dest = SourceFile THEN NoExport ELSE exported
    /\ last' = Last("edit", <<>>, SourceFile, TRUE, 0, <<>>)
    /\ nops' = nops + 1
    /\ UNCHANGED <<config_file, patterns, pid, rd, vs, hist>>

\* a version that moves the pattern it found to the front of the catalog
IdentifyFieldType_moves_to_front(column_name) ==
    /\ LET r == identify_field_type(patterns, column_name)
       IN  /\ last' = Last("identify", column_name, "", r, 0, <<>>)
           /\ patterns' = IF r.exc = "none" /\ r.found
                          THEN <<Entry(r.name, r.cfg)>>
                                   \o SelectSeq(patterns, LAMBDA e : e.name # r.name)
                          ELSE patterns
    /\ UNCHANGED <<files, config_file, pid, nops, exported, rd, vs, hist>>

IdentifyFieldType(column_name) ==
    /\ last' = Last("identify", column_name, "",
                    identify_field_type(patterns, column_name), 0, <<>>)
    /\ UNCHANGED <<files, config_file, patterns, pid, nops, exported, rd, vs, hist>>

GetPatternSummary ==
    /\ last' = Last("summary", <<>>, "", get_pattern_summary(patterns), 0, <<>>)
    /\ UNCHANGED <<files, config_file, patterns, pid, nops, exported, rd, vs, hist>>

Next ==
    \/ \E f \in FileNames : Construct(f)
    \/ ReloadFieldPatterns
    \/ \E name \in CustomNames, cfg \in CustomConfigs : AddCustomPattern(name, cfg)
    \/ \E name \in RemoveNames : RemovePattern(name)
    \/ \E dest \in FileNames : ExportPatterns(dest)
    \/ \E s \in SourceStates : EditSource(s)
    \/ \E c \in ColumnNames : IdentifyFieldType(c)
    \/ GetPatternSummary

Spec == Init /\ [][Next]_vars


(* ------------- a reader running beside reload_patterns ------------------ *)

\* the dict the reader iterates: the one self.patterns named when the call
\* evaluated self.patterns.items()
ReaderDict == IF rd.ref = pid THEN patterns ELSE rd.obj

\* identify_field_type(column_name) begins: column_lower, then items()
ReaderStart(column_name) ==
    /\ rd.pc = "idle"
    /\ rd' = [pc |-> "iter", ref |-> pid, obj |-> patterns, i |-> 1,
              col |-> column_name, seen |-> <<>>, versions |-> {patterns},
              out |-> Returned(FALSE, "", CFG_bare)]
    /\ UNCHANGED <<files, config_file, patterns, pid, last, nops, exported, vs, hist>>

\* one turn of the outer loop, or its end
ReaderStep ==
    /\ rd.pc = "iter"
    /\ IF rd.i > Len(ReaderDict)
       THEN rd' = [rd EXCEPT !.pc = "done", !.out = Returned(FALSE, "", CFG_bare)]
       ELSE LET e == ReaderDict[rd.i]
                seen == Append(rd.seen, e)
            IN  IF ~e.cfg.hasKeywords
                THEN rd' = [rd EXCEPT !.pc = "done", !.seen = seen,
                                      !.out = Raised("KeyError")]
                ELSE IF scan_keywords(e.cfg.keywords, 1, lower(rd.col))
                THEN rd' = [rd EXCEPT !.pc = "done", !.seen = seen,
                                      !.out = Returned(TRUE, e.name, e.cfg)]
                ELSE rd' = [rd EXCEPT !.i = rd.i + 1, !.seen = seen]
    /\ UNCHANGED <<files, config_file, patterns, pid, last, nops, exported, vs, hist>>

\* the call returns to its caller
ReaderReturn ==
    /\ rd.pc = "done"
    /\ last' = Last("identify", rd.col, "", rd.out, 0, <<>>)
    /\ rd' = RdIdle
    /\ UNCHANGED <<files, config_file, patterns, pid, nops, exported, vs, hist>>

\* reload_patterns() on another thread, at any point of the reader's call
ConcReload ==
    /\ nops < MaxOps
    /\ LET r == reload_patterns(patterns, files[config_file])
           target == reload_object(pid, IF rd.pc = "idle" THEN pid ELSE rd.ref)
       IN  /\ r.exc = "none"
           /\ patterns' = r.value
           /\ pid' = target
           /\ rd' = IF rd.pc = "idle" THEN rd
                    ELSE [rd EXCEPT !.obj = IF rd.ref = pid THEN patterns ELSE @,
                                    !.versions = @ \cup {r.value}]
           /\ last' = Last("reload", <<>>, config_file,
                           [load |-> r, summary |-> get_pattern_summary(r.value)],
                           0, <<>>)
    /\ nops' = nops + 1
    /\ hist' = NoChange
    /\ UNCHANGED <<files, config_file, exported, vs>>

ConcEditSource(s) ==
    /\ nops < MaxOps
    /\ files[SourceFile] # s
    /\ files' = [files EXCEPT ![SourceFile] = s]
    /\ nops' = nops + 1
    /\ UNCHANGED <<config_file, patterns, pid, last, exported, rd, vs, hist>>

NextConc ==
    \/ \E c \in ColumnNames : ReaderStart(c)
    \/ ReaderStep
    \/ ReaderReturn
    \/ ConcReload
    \/ \E s \in SourceStates : ConcEditSource(s)

SpecConc == Init /\ [][NextConc]_vars

(* ------------------- the validator on its own inputs -------------------- *)

CFG_date ==
    Pattern(<<<<"d","a","t","e">>>>, Rule("date_format", "", "", TRUE, <<1, 2>>),
            "date_field")

CFG_text ==
    Pattern(<<<<"n","a","m","e">>>>, Rule("text_format", "", "", FALSE, <<0, 1>>),
            "name_field")

\* no validation entry at all
CFG_plain == Pattern(<<<<"u","r","l">>>>, NoValidation, "url_field")

\* a numeric_range rule with a min and no max
CFG_floor ==
    Pattern(<<<<"q","t","y">>>>,
            [Rule("numeric_range", "", "", FALSE, <<0, 1>>)
                EXCEPT !.hasMin = TRUE, !.min = 1],
            "qty_field")

\* a rule whose threshold is 1.5
CFG_over ==
    Pattern(<<<<"p","c","t">>>>, Rule("numeric", "", "", TRUE, <<3, 2>>), "pct_field")

\* the configs a catalog of this model can hold
ValConfigs ==
    {_get_default_patterns[i].cfg : i \in 1..3} \cup CustomConfigs
        \cup {CFG_date, CFG_text, CFG_plain, CFG_floor, CFG_over}

V_email == StrV(<<"a","@","b",".","c">>, "ValueError")
V_bad   == StrV(<<"b","a","d">>, "ValueError")
V_five  == IntV(5)

\* an int on which the date parser raises neither ValueError nor TypeError
V_huge  == [IntV(1000000) EXCEPT !.date = "OverflowError"]

\* the values a sample is drawn from
SamplePool == {V_email, V_bad, V_five}

\* the values validate_field_value is called with
ValuePool ==
    SamplePool \cup
    { StrV(<<"1","0">>, "ok"), StrV(<<" ","1"," ">>, "ok"), StrV(<<"0",".","5">>, "ok"),
      StrV(<<"1","1">>, "ok"), StrV(<<"n","a","n">>, "ValueError"),
      StrV(<<"Y","e","s">>, "ValueError"),
      StrV(<<"5","5","5","-","1","2","3","4">>, "ValueError"),
      V_huge, NoneV }

Samples == UNION {[1..n -> SamplePool] : n \in 0..MaxSample}

ValidateFieldValue(value, cfg) ==
    /\ vs.op = "idle"
    /\ vs' = [op |-> "value", value |-> value, sample |-> <<>>, cfg |-> cfg,
              out |-> validate_field_value(cfg.field_type, value, cfg)]
    /\ UNCHANGED <<files, config_file, patterns, pid, last, nops, exported, rd, hist>>

ValidateFieldSample(sample_values, cfg) ==
    /\ vs.op = "idle"
    /\ vs' = [op |-> "sample", value |-> NoneV, sample |-> sample_values, cfg |-> cfg,
              out |-> _validate_field_sample(sample_values, cfg)]
    /\ UNCHANGED <<files, config_file, patterns, pid, last, nops, exported, rd, hist>>

GetValidationThreshold(cfg) ==
    /\ vs.op = "idle"
    /\ vs' = [op |-> "threshold", value |-> NoneV, sample |-> <<>>, cfg |-> cfg,
              out |-> get_validation_threshold(cfg)]
    /\ UNCHANGED <<files, config_file, patterns, pid, last, nops, exported, rd, hist>>

\* the caller has taken the result
ValidatorReturn ==
    /\ vs.op # "idle"
    /\ vs' = VsIdle
    /\ UNCHANGED <<files, config_file, patterns, pid, last, nops, exported, rd, hist>>

NextVal ==
    \/ \E v \in ValuePool, cfg \in ValConfigs : ValidateFieldValue(v, cfg)
    \/ \E sample \in Samples, cfg \in ValConfigs : ValidateFieldSample(sample, cfg)
    \/ \E cfg \in ValConfigs : GetValidationThreshold(cfg)
    \/ ValidatorReturn

SpecVal == Init /\ [][NextVal]_vars

(* ------------------------------ the profiler ---------------------------- *)

\* the least member of a set of numbers
Min(S) == CHOOSE x \in S : \A y \in S : x <= y

Uppers == {UpperChars[i] : i \in 1..26}

Lowers == {LowerChars[i] : i \in 1..26}

\* str.islower(): some cased character, and none of them upper case
islower(s) ==
    /\ \E i \in 1..Len(s) : s[i] \in Lowers
    /\ \A i \in 1..Len(s) : s[i] \notin Uppers

\* str.isupper()
isupper(s) ==
    /\ \E i \in 1..Len(s) : s[i] \in Uppers
    /\ \A i \in 1..Len(s) : s[i] \notin Lowers

\* a version whose PascalCase test looks at the first character alone
naming_case_first_upper(col_name) ==
    IF (\E i \in 1..Len(col_name) : col_name[i] = "_") /\ islower(col_name)
    THEN "snake"
    ELSE IF isupper(<<col_name[1]>>) THEN "pascal"
    ELSE IF isupper(col_name) THEN "upper"
    ELSE "none"

\* the if / elif chain that counts one column name
naming_case(col_name) ==
    IF (\E i \in 1..Len(col_name) : col_name[i] = "_") /\ islower(col_name)
    THEN "snake"
    ELSE IF isupper(<<col_name[1]>>) /\ ~isupper(col_name) THEN "pascal"
    ELSE IF isupper(col_name) THEN "upper"
    ELSE "none"

\* a version in which half of the columns is a majority: >= 0.5
_identify_naming_convention_half(columns_info) ==
    IF columns_info = <<>> THEN "unknown"
    ELSE LET total_columns == Len(columns_info)
             snake_case_count ==
                 Cardinality({i \in 1..total_columns : naming_case(columns_info[i]) = "snake"})
             pascal_case_count ==
                 Cardinality({i \in 1..total_columns : naming_case(columns_info[i]) = "pascal"})
             upper_case_count ==
                 Cardinality({i \in 1..total_columns : naming_case(columns_info[i]) = "upper"})
         IN  IF 2 * snake_case_count >= total_columns THEN "snake_case"
             ELSE IF 2 * pascal_case_count >= total_columns THEN "PascalCase"
             ELSE IF 2 * upper_case_count >= total_columns THEN "UPPER_CASE"
             ELSE "mixed"

\* count / total_columns > 0.5  is  2 * count > total_columns
_identify_naming_convention(columns_info) ==
    IF columns_info = <<>> THEN "unknown"
    ELSE LET total_columns == Len(columns_info)
             snake_case_count ==
                 Cardinality({i \in 1..total_columns : naming_case(columns_info[i]) = "snake"})
             pascal_case_count ==
                 Cardinality({i \in 1..total_columns : naming_case(columns_info[i]) = "pascal"})
             upper_case_count ==
                 Cardinality({i \in 1..total_columns : naming_case(columns_info[i]) = "upper"})
         IN  IF 2 * snake_case_count > total_columns THEN "snake_case"
             ELSE IF 2 * pascal_case_count > total_columns THEN "PascalCase"
             ELSE IF 2 * upper_case_count > total_columns THEN "UPPER_CASE"
             ELSE "mixed"

\* a table as the cursor shows it: the column names, the rows of
\* SELECT * ... LIMIT sample_size with one value per column (NoneV for NULL),
\* and whether the cursor raises a database error
Table(table_name, source_system, columns_info, sample_data, db) ==
    [table_name |-> table_name, source_system |-> source_system,
     columns_info |-> columns_info, sample_data |-> sample_data, db |-> db]

\* df_sample[col_name].dropna() for the k-th column
column_sample(sample_data, k) ==
    SelectSeq([r \in 1..Len(sample_data) |-> sample_data[r][k]],
              LAMBDA v : v.ty # "none")

NewInsights(naming_convention) ==
    [exc |-> "none", naming_convention |-> naming_convention,
     mapping_recommendations |-> <<>>, data_type_notes |-> <<>>,
     sample_patterns |-> <<>>, potential_issues |-> <<>>,
     mapping_complexity |-> "LOW", validated |-> <<>>]

\* what one turn of the column loop does: nothing, a note, an issue, or an
\* exception that ends the loop; validated holds the length of the sample
\* the turn handed to _validate_field_sample, if it did
Turn(exc, does, pattern_name, field_type, issues) ==
    [exc |-> exc, does |-> does, pattern_name |-> pattern_name,
     field_type |-> field_type, issues |-> issues, validated |-> <<>>]

TurnSkips == Turn("none", "skip", "", "", <<>>)

\* if validation_result['is_valid']: ... else: ...
column_validated(id, validation_result) ==
    IF validation_result.exc # "none"
    THEN Turn(validation_result.exc, "raise", "", "", <<>>)
    ELSE IF validation_result.is_valid
    THEN Turn("none", "note", id.name, id.cfg.field_type, <<>>)
    ELSE Turn("none", "issue", id.name, id.cfg.field_type, validation_result.issues)

\* if field_type: insights['sample_patterns'][col_name] =
\* pattern_config['field_type'], then the sample is validated
column_identified(sample_values, id) ==
    IF id.exc # "none" THEN Turn(id.exc, "raise", "", "", <<>>)
    ELSE IF ~id.found THEN TurnSkips
    ELSE IF ~id.cfg.hasFieldType THEN Turn("KeyError", "raise", "", "", <<>>)
    ELSE [column_validated(id, _validate_field_sample(sample_values, id.cfg))
             EXCEPT !.validated = <<Len(sample_values)>>]

\* a version without  if len(sample_values) > 0
column_turn_unguarded(cat, columns_info, sample_data, k) ==
    column_identified(column_sample(sample_data, k),
                      identify_field_type(cat, columns_info[k]))

\* the body of  for col in columns_info  for the k-th column: every row of
\* the sample has every column, so  col_name in df_sample.columns  holds
column_turn(cat, columns_info, sample_data, k) ==
    IF Len(column_sample(sample_data, k)) > 0
    THEN column_identified(column_sample(sample_data, k),
                           identify_field_type(cat, columns_info[k]))
    ELSE TurnSkips

\* the members of a set of indices, in increasing order
InOrder(S) ==
    [i \in 1..Cardinality(S) |->
        CHOOSE k \in S : Cardinality({j \in S : j <= k}) = i]

\* the calls of _validate_field_sample made in the turns up to the given one
calls_made(columns_info, turns, upto) ==
    LET called == InOrder({k \in 1..upto : turns[k].validated # <<>>})
    IN  [i \in 1..Len(called) |->
            [col |-> columns_info[called[i]],
             total_count |-> turns[called[i]].validated[1]]]

RECURSIVE Flat(_)
\* the members of the sequences of a sequence, in one sequence
Flat(ss) == IF ss = <<>> THEN <<>> ELSE Head(ss) \o Flat(Tail(ss))

\* a version that appends one potential issue for every issue of a column
columns_loop_per_value(columns_info, insights, turns) ==
    LET raising == {k \in 1..Len(columns_info) : turns[k].exc # "none"}
        typed == InOrder({k \in 1..Len(columns_info) : turns[k].does \in {"note", "issue"}})
        notes == InOrder({k \in 1..Len(columns_info) : turns[k].does = "note"})
        issues == InOrder({k \in 1..Len(columns_info) : turns[k].does = "issue"})
    IN  IF raising # {}
        THEN [insights EXCEPT
                !.exc = turns[Min(raising)].exc,
                !.validated = calls_made(columns_info, turns, Min(raising))]
        ELSE [insights EXCEPT
                !.validated = calls_made(columns_info, turns, Len(columns_info)),
                !.sample_patterns =
                    [i \in 1..Len(typed) |->
                        [col |-> columns_info[typed[i]],
                         field_type |-> turns[typed[i]].field_type]],
                !.data_type_notes =
                    [i \in 1..Len(notes) |->
                        [col |-> columns_info[notes[i]],
                         field_type |-> turns[notes[i]].pattern_name]],
                !.potential_issues =
                    Flat([i \in 1..Len(issues) |->
                            [j \in 1..Len(turns[issues[i]].issues) |->
                                [col |-> columns_info[issues[i]],
                                 issues |-> <<turns[issues[i]].issues[j]>>]]])]

\* the loop over the columns, given what each turn does: the turns are
\* taken in column order and the first one that raises ends the call; else
\* every note, issue and sample_patterns entry is appended in column order
columns_loop(columns_info, insights, turns) ==
    LET raising == {k \in 1..Len(columns_info) : turns[k].exc # "none"}
        typed == InOrder({k \in 1..Len(columns_info) : turns[k].does \in {"note", "issue"}})
        notes == InOrder({k \in 1..Len(columns_info) : turns[k].does = "note"})
        issues == InOrder({k \in 1..Len(columns_info) : turns[k].does = "issue"})
    IN  IF raising # {}
        THEN [insights EXCEPT
                !.exc = turns[Min(raising)].exc,
                !.validated = calls_made(columns_info, turns, Min(raising))]
        ELSE [insights EXCEPT
                !.validated = calls_made(columns_info, turns, Len(columns_info)),
                !.sample_patterns =
                    [i \in 1..Len(typed) |->
                        [col |-> columns_info[typed[i]],
                         field_type |-> turns[typed[i]].field_type]],
                !.data_type_notes =
                    [i \in 1..Len(notes) |->
                        [col |-> columns_info[notes[i]],
                         field_type |-> turns[notes[i]].pattern_name]],
                !.potential_issues =
                    [i \in 1..Len(issues) |->
                        [col |-> columns_info[issues[i]],
                         issues |-> turns[issues[i]].issues]]]

\* the recommendation for source1, source2, source3; none for another system
recommendations(source_system) ==
    CASE source_system = "source1" -> <<"Use snake_case to standardized mapping">>
      [] source_system = "source2" -> <<"Use PascalCase to standardized mapping">>
      [] source_system = "source3" -> <<"Use UPPER_CASE to standardized mapping">>
      [] OTHER -> <<>>

\* a version in which three issues are HIGH already
complexity_three_high(potential_issues) ==
    IF Len(potential_issues) >= 3 THEN "HIGH"
    ELSE IF Len(potential_issues) > 1 THEN "MEDIUM"
    ELSE "LOW"

\* more than 3 issues HIGH, more than 1 MEDIUM, else the LOW it starts with
complexity(potential_issues) ==
    IF Len(potential_issues) > 3 THEN "HIGH"
    ELSE IF Len(potential_issues) > 1 THEN "MEDIUM"
    ELSE "LOW"

\* the statements behind the loop: the recommendations and the complexity
assess(looped, source_system) ==
    IF looped.exc # "none" THEN looped
    ELSE [looped EXCEPT
            !.mapping_recommendations = recommendations(source_system),
            !.mapping_complexity = complexity(looped.potential_issues)]

_generate_mapping_insights(cat, columns_info, sample_data, naming_convention, source_system) ==
    assess(IF sample_data # <<>>
           THEN columns_loop(columns_info, NewInsights(naming_convention),
                             [k \in 1..Len(columns_info) |->
                                 column_turn(cat, columns_info, sample_data, k)])
           ELSE NewInsights(naming_convention),
           source_system)

\* what a profile_table call gives: a result dict, None, or an exception
ProfileResult(exc, ret, naming_convention, mapping_insights, total_columns) ==
    [exc |-> exc, ret |-> ret, naming_convention |-> naming_convention,
     mapping_insights |-> mapping_insights, total_columns |-> total_columns]

ProfileNone == ProfileResult("none", "None", "", NewInsights(""), 0)

\* the end of profile_table: the result dict, or the handler.
\* SchemaDataProfiler ("mysql") handles mysql.connector's Error alone,
\* SQLiteSchemaDataProfiler ("sqlite") every Exception; both return None.
\* The record of the _validate_field_sample calls made stays with the outcome.
compile_result(backend, table, mapping_insights) ==
    IF mapping_insights.exc = "none"
    THEN ProfileResult("none", "result", mapping_insights.naming_convention,
                       mapping_insights, Len(table.columns_info))
    ELSE IF backend = "sqlite"
    THEN [ProfileNone EXCEPT !.mapping_insights.validated = mapping_insights.validated]
    ELSE [ProfileNone EXCEPT !.exc = mapping_insights.exc,
                             !.mapping_insights.validated = mapping_insights.validated]

profile_table(backend, cat, table) ==
    IF table.db # "ok" THEN ProfileNone
    ELSE compile_result(backend, table,
             _generate_mapping_insights(cat, table.columns_info, table.sample_data,
                                        _identify_naming_convention(table.columns_info),
                                        table.source_system))

\* for table in tables: self.profile_table(...), given what each call gives.
\* An exception that leaves profile_table is no mysql Error, so it leaves
\* the loop and the  except Error  around it as well: the tables behind it
\* are never profiled.
tables_loop(tables, results) ==
    LET raising == {k \in 1..Len(tables) : results[k].exc # "none"}
        reached == IF raising = {} THEN Len(tables) ELSE Min(raising) - 1
    IN  [exc |-> IF raising = {} THEN "none" ELSE results[Min(raising)].exc,
         outcomes |-> [k \in 1..reached |->
                          [table_name |-> tables[k].table_name, ret |-> results[k].ret]]]

\* profile_all_systems, over the tables of the systems in the order they
\* are visited
profile_all_systems(backend, cat, tables) ==
    tables_loop(tables, [k \in 1..Len(tables) |-> profile_table(backend, cat, tables[k])])

Backends == {"mysql", "sqlite"}

\* a pattern that has keywords and no 'field_type'
CFG_nofield ==
    [Pattern(<<S_sku>>, NoValidation, "") EXCEPT !.hasFieldType = FALSE]

ProfConfigs == CustomConfigs \cup {CFG_nofield}

T_users ==
    Table("users", "source1",
          << <<"E","m","a","i","l">>, <<"m","a","i","l","_","i","d">> >>,
          << <<V_email, V_five>>, <<V_bad, V_five>>, <<NoneV, V_five>> >>, "ok")

T_items ==
    Table("items", "source3",
          << <<"S","K","U","_","N","O">>, <<"z","i","p">>, <<"s","k","u">> >>,
          << <<V_five, V_bad, V_five>>, <<V_five, NoneV, V_bad>> >>, "ok")

\* a key column that is NULL in every row
T_wide ==
    Table("contacts", "source1",
          << <<"m","a","i","l">>, <<"t","e","l">>, <<"i","d">>, <<"k","e","y">>,
             <<"s","k","u">>, <<"u","i","d">> >>,
          << <<V_bad, V_bad, V_bad, NoneV, V_bad, V_five>>,
             <<V_bad, V_five, V_bad, NoneV, V_five, V_five>> >>, "ok")

T_empty == Table("audit", "target", << <<"z","i","p">> >>, <<>>, "ok")

T_down == Table("orders", "source2", << <<"s","k","u">> >>, <<>>, "Error")

\* the tables the systems hold, in the order profile_all_systems meets them
SystemTables == <<T_users, T_wide, T_down, T_items, T_empty>>

ProfileTable(backend, table) ==
    /\ last' = Last("profile_table", <<>>, backend,
                    [table |-> table, result |-> profile_table(backend, patterns, table)],
                    0, <<>>)
    /\ UNCHANGED <<files, config_file, patterns, pid, nops, exported, rd, vs, hist>>

ProfileAllSystems(backend) ==
    /\ last' = Last("profile_all_systems", <<>>, backend,
                    profile_all_systems(backend, patterns, SystemTables), 0, <<>>)
    /\ UNCHANGED <<files, config_file, patterns, pid, nops, exported, rd, vs, hist>>

NextProf ==
    \/ \E cfg \in ProfConfigs : AddCustomPattern("sku", cfg)
    \/ \E b \in Backends, k \in 1..Len(SystemTables) : ProfileTable(b, SystemTables[k])
    \/ \E b \in Backends : ProfileAllSystems(b)

SpecProf == Init /\ [][NextProf]_vars

(* --------------- the naming classifier on its own inputs ---------------- *)

\* how many columns a table given to _identify_naming_convention has
MaxColumns == 4

\* column names of every casing
NamePool ==
    { <<"u","s","e","r","_","i","d">>, <<"f","i","r","s","t","_","n","a","m","e">>,
      <<"U","s","e","r","I","d">>, <<"F","i","r","s","t","N","a","m","e">>,
      <<"S","K","U","_","N","O">>, <<"I","D">>, <<"z","i","p">> }

\* the Field entries of DESCRIBE: no name twice
ColumnLists ==
    {c \in UNION {[1..n -> NamePool] : n \in 0..MaxColumns} :
        \A i, j \in 1..Len(c) : c[i] = c[j] => i = j}

IdentifyNamingConvention(columns_info) ==
    /\ vs.op = "idle"
    /\ vs' = [op |-> "naming", columns_info |-> columns_info,
              out |-> _identify_naming_convention(columns_info)]
    /\ UNCHANGED <<files, config_file, patterns, pid, last, nops, exported, rd, hist>>

NextName ==
    \/ \E columns_info \in ColumnLists : IdentifyNamingConvention(columns_info)
    \/ ValidatorReturn

SpecName == Init /\ [][NextName]_vars

(* ------------- the read operations beside the catalog edits ------------- *)

\* the patterns registered while the read operations are watched
ReadConfigs == {CFG_sku, CFG_nullval}

\* the samples _validate_field_sample is given there
ReadSamples == {<<>>, <<V_five>>, <<V_bad, V_five>>}

\* the caller makes one call at a time: the validator is called, with a
\* pattern of the catalog, between the other calls
NextRead ==
    \/ \E cfg \in ReadConfigs : AddCustomPattern("sku", cfg)
    \/ RemovePattern("sku")
    \/ ReloadFieldPatterns
    \/ ExportPatterns(ExportFile)
    \/ \E c \in ColumnNames : IdentifyFieldType(c)
    \/ GetPatternSummary
    \/ \E i \in 1..Len(patterns), v \in SamplePool :
          ValidateFieldValue(v, patterns[i].cfg)
    \/ \E i \in 1..Len(patterns), s \in ReadSamples :
          ValidateFieldSample(s, patterns[i].cfg)
    \/ \E i \in 1..Len(patterns) : GetValidationThreshold(patterns[i].cfg)
    \/ ValidatorReturn

SpecRead == Init /\ [][NextRead]_vars

(* ============================== properties ============================== *)

\* the pattern has a keyword that occurs in the lower-cased column name
KeywordIn(cfg, column_name) ==
    /\ cfg.hasKeywords
    /\ \E j \in 1..Len(cfg.keywords) : IsSubstr(cfg.keywords[j], lower(column_name))

MatchSet(cat, column_name) ==
    {i \in 1..Len(cat) : KeywordIn(cat[i].cfg, column_name)}

WellFormedKeywords(cat) == \A i \in 1..Len(cat) : cat[i].cfg.hasKeywords

\* C1: identify_field_type returns the first pattern, in insertion order, that
\* has a keyword occurring in the lower-cased column name, and None exactly
\* when no pattern has one; over patterns that all carry keywords it returns.
C1_FirstMatchWins ==
    last.op = "identify" =>
        LET M == MatchSet(patterns, last.col)
        IN  /\ last.out.exc = "none" =>
                IF M = {} THEN ~last.out.found
                ELSE /\ last.out.found
                     /\ last.out.name = patterns[Min(M)].name
                     /\ last.out.cfg = patterns[Min(M)].cfg
            /\ WellFormedKeywords(patterns) => last.out.exc = "none"

\* a column name that two patterns match was identified
C1_Witness ==
    /\ last.op = "identify"
    /\ last.out.exc = "none"
    /\ last.out.found
    /\ Cardinality(MatchSet(patterns, last.col)) >= 2

\* C2: matching ignores the case of the column name and of the keyword: a
\* column name that contains a keyword of some pattern, case ignored on both
\* sides, is identified.
C2_CaseInsensitive ==
    (last.op = "identify" /\ last.out.exc = "none") =>
        ((\E i \in 1..Len(patterns) :
             /\ patterns[i].cfg.hasKeywords
             /\ \E j \in 1..Len(patterns[i].cfg.keywords) :
                   IsSubstr(lower(patterns[i].cfg.keywords[j]), lower(last.col)))
         => last.out.found)

\* the three built-in patterns, as the fallback is described
IsDefaultCatalog(cat) ==
    /\ Names(cat) = <<"email", "phone", "identifier">>
    /\ cat = _get_default_patterns

\* C3: loading never raises; after construction or reload the catalog is the
\* field_patterns mapping of the source when the source is a JSON document
\* with that key, and the three defaults email, phone, identifier otherwise.
C3_LoadFailsSoft ==
    last.op \in {"construct", "reload"} =>
        LET f == files[last.name]
        IN  /\ last.out.load.exc = "none"
            /\ IF f.st = "json" /\ f.key = "field_patterns"
               THEN patterns = f.body
               ELSE IsDefaultCatalog(patterns)

\* a load from a JSON document without the wrapper key fell back to defaults
C3_Witness ==
    /\ last.op = "reload"
    /\ files[last.name].st = "json"
    /\ files[last.name].key # "field_patterns"
    /\ IsDefaultCatalog(patterns)

\* C5: a reload that directly follows a reload (nothing touched the source in
\* between) leaves the catalog as it was and reports the same summary.
C5_ReloadIdempotent ==
    [][(last.op = "reload" /\ last'.op = "reload")
          => (patterns' = patterns /\ last'.out.summary = last.out.summary)]_vars

\* two reloads in succession, of a source that is not the fallback
C5_Witness ==
    /\ last.op = "reload"
    /\ last.streak = 2
    /\ ~IsDefaultCatalog(patterns)

\* same names in the same order, same keywords, same validation fields
Equivalent(a, b) ==
    /\ Len(a) = Len(b)
    /\ \A i \in 1..Len(a) :
          /\ a[i].name = b[i].name
          /\ a[i].cfg.hasKeywords = b[i].cfg.hasKeywords
          /\ a[i].cfg.keywords = b[i].cfg.keywords
          /\ a[i].cfg.validation = b[i].cfg.validation
          /\ a[i].cfg.hasFieldType = b[i].cfg.hasFieldType
          /\ a[i].cfg.field_type = b[i].cfg.field_type

\* C6: loading from a file that a successful export wrote gives a catalog
\* equivalent to the exported one.
C6_RoundTrip ==
    (last.op \in {"construct", "reload"} /\ last.snap # <<>>)
        => Equivalent(patterns, last.snap[1])

\* a catalog holding tuple keywords was exported and loaded back
C6_Witness ==
    /\ last.op = "construct"
    /\ last.snap # <<>>
    /\ \E i \in 1..Len(last.snap[1]) : last.snap[1][i].cfg.kwKind = "tuple"
    /\ patterns # last.snap[1]


IsPrefix(p, q) == Len(p) <= Len(q) /\ SubSeq(q, 1, Len(p)) = p

C7_NeverRaises ==
    vs.op = "value" => vs.out.exc = "none"

\* applying the rule to the value hits a parse or type error
HitsParseError(cfg, value) ==
    LET v == cfg.validation
    IN  \/ v.type \in {"numeric", "numeric_range"} /\ float_of(value).exc # "none"
        \/ v.type = "date_format" /\ value.date # "ok"
        \/ v.type = "regex" /\ v.pattern # ""
              /\ re_match(v.pattern, str_of(value)).exc # "none"

\* C8 as stated: whenever applying the rule hits a parse or type error, the
\* value counts as valid and the result is true.
C8_FailOpen ==
    (vs.op = "value" /\ vs.cfg.validation.kind = "map"
        /\ HitsParseError(vs.cfg, vs.value))
      => (vs.out.exc = "none" /\ vs.out.ret)

\* C8 amended: the result is true when the error reaches the outer handler
\* (a regex that does not compile, a date parser exception other than
\* ValueError and TypeError); a value that is not parseable as a number
\* under numeric and numeric_range, or as a date under date_format, gives
\* false.
C8_FailOpenAmended ==
    (vs.op = "value" /\ vs.cfg.validation.kind = "map") =>
        LET v == vs.cfg.validation
        IN  /\ vs.out.exc = "none"
            /\ (v.type = "regex" /\ v.pattern # ""
                  /\ re_match(v.pattern, str_of(vs.value)).exc # "none")
                 => vs.out.ret
            /\ (v.type = "date_format"
                  /\ vs.value.date \notin {"ok", "ValueError", "TypeError"})
                 => vs.out.ret
            /\ (v.type \in {"numeric", "numeric_range"}
                  /\ float_of(vs.value).exc # "none")
                 => ~vs.out.ret
            /\ (v.type = "date_format" /\ vs.value.date \in {"ValueError", "TypeError"})
                 => ~vs.out.ret

\* a value was validated under a regex that does not compile
C8_Witness ==
    /\ vs.op = "value"
    /\ vs.cfg.validation.kind = "map"
    /\ vs.cfg.validation.type = "regex"
    /\ re_match(vs.cfg.validation.pattern, str_of(vs.value)).exc = "re.error"
    /\ vs.out.ret

\* how many values of the sample validate_field_value rejects
Failing(sample, cfg) ==
    Cardinality({k \in 1..Len(sample) :
                    ~validate_field_value(cfg.field_type, sample[k], cfg).ret})

\* the rule's own threshold, 0.7 when it gives none
ThresholdOf(cfg) ==
    IF cfg.validation.hasThreshold THEN cfg.validation.threshold ELSE <<7, 10>>

\* C9: _validate_field_sample returns valid_count + (values rejected) =
\* total_count = len(S), valid_percentage = 100 * valid_count / total_count,
\* and is_valid exactly when valid_percentage >= threshold * 100; it returns
\* for every non-empty sample and every pattern that has a field_type and a
\* validation entry that is not null.
C9_SampleArithmetic ==
    vs.op = "sample" =>
        LET o == vs.out
            t == ThresholdOf(vs.cfg)
        IN  /\ o.exc = "none" =>
                /\ o.valid_count + Failing(vs.sample, vs.cfg) = o.total_count
                /\ o.total_count = Len(vs.sample)
                /\ o.valid_percentage[1] * o.total_count
                      = 100 * o.valid_count * o.valid_percentage[2]
                /\ o.valid_percentage[2] > 0
                /\ o.is_valid <=> (o.valid_count * t[2] >= t[1] * o.total_count)
            /\ (vs.sample # <<>> /\ vs.cfg.hasFieldType
                   /\ vs.cfg.validation.kind # "null") => o.exc = "none"

\* two valid values out of three under the threshold 0.7: not valid
C9_Witness ==
    /\ vs.op = "sample"
    /\ vs.out.exc = "none"
    /\ vs.out.total_count = 3
    /\ vs.out.valid_count = 2
    /\ ThresholdOf(vs.cfg) = <<7, 10>>
    /\ ~vs.out.is_valid

\* C10: with an empty sample _validate_field_sample returns
\* valid_percentage = 100 and issues = [], and raises nothing.
C10_EmptySample ==
    (vs.op = "sample" /\ vs.sample = <<>>) =>
        /\ vs.out.exc = "none"
        /\ vs.out.valid_percentage[1] = 100 * vs.out.valid_percentage[2]
        /\ vs.out.issues = <<>>


\* no name occurs twice in the catalog
NamesUnique(cat) ==
    \A i, j \in 1..Len(cat) : cat[i].name = cat[j].name => i = j

\* the entries other than the one called name, in their order
Others(cat, name) == SelectSeq(cat, LAMBDA e : e.name # name)

\* C11: add_custom_pattern(name, p) inserts or overwrites: afterwards the
\* catalog maps name to p, every other entry is as it was, and the catalog
\* has one pattern more exactly when name was not in it; no name ever occurs
\* twice in the catalog.
C11_AddInsertsOrOverwrites ==
    /\ [](NamesUnique(patterns))
    /\ [][last'.op = "add" =>
            LET name == last'.name
                p == hist'.cfg
            IN  /\ last'.out = TRUE
                /\ hist'.name = name
                /\ \E i \in 1..Len(patterns') :
                      patterns'[i].name = name /\ patterns'[i].cfg = p
                /\ Others(patterns', name) = Others(patterns, name)
                /\ Len(patterns') =
                      Len(patterns) + (IF HasName(patterns, name) THEN 0 ELSE 1)]_vars

\* the built-in email pattern was overwritten where it stands
C11_Witness ==
    /\ last.op = "add"
    /\ last.name = "email"
    /\ Names(patterns) = <<"email", "phone", "identifier">>
    /\ patterns[1].cfg = hist.cfg
    /\ patterns[1].cfg # _get_default_patterns[1].cfg

\* keywords is there, is a list or a tuple, is not empty, and holds strings
\* (every keyword of this model is a string)
KeywordsAccepted(cfg) ==
    /\ cfg.hasKeywords
    /\ cfg.kwKind \in {"list", "tuple"}
    /\ cfg.keywords # <<>>

\* C12: a pattern whose keywords entry is missing, empty or not a sequence of
\* strings is not accepted: what add_custom_pattern has put into the catalog
\* has a non-empty sequence of strings as its keywords.
C12_KeywordsRequired ==
    hist.op = "add" =>
        \A i \in 1..Len(patterns) :
            (patterns[i].name = hist.name /\ patterns[i].cfg = hist.cfg)
                => KeywordsAccepted(patterns[i].cfg)

\* the pattern has no keywords entry, or a validation entry that is no mapping
Malformed(cfg) == ~cfg.hasKeywords \/ cfg.validation.kind = "null"

\* C13: with a malformed pattern in the catalog identify_field_type still
\* returns for every column name, and validate_field_value under a malformed
\* pattern returns true for every value.
C13_ShapeErrorsDefaultToValid ==
    /\ (last.op = "identify" /\ \E i \in 1..Len(patterns) : Malformed(patterns[i].cfg))
          => last.out.exc = "none"
    /\ (vs.op = "value" /\ Malformed(vs.cfg))
          => (vs.out.exc = "none" /\ vs.out.ret)

\* C14: remove_pattern(name) returns true exactly when name was in the
\* catalog; afterwards name is not in the catalog and the other entries are
\* there in the order they had; an absent name leaves the catalog as it was.
C14_RemoveReportsRemoval ==
    [][last'.op = "remove" =>
          LET name == last'.name
          IN  /\ last'.out = HasName(patterns, name)
              /\ ~HasName(patterns', name)
              /\ patterns' = Others(patterns, name)
              /\ ~HasName(patterns, name) => patterns' = patterns]_vars

\* the first of the three built-in patterns was removed
C14_Witness ==
    /\ last.op = "remove"
    /\ last.name = "email"
    /\ last.out = TRUE
    /\ Names(patterns) = <<"phone", "identifier">>

\* C15 as stated: after add_custom_pattern(n, p), identify_field_type(C)
\* returns n for every C that has a keyword of p in it; after a remove_pattern(n)
\* that follows, identify_field_type never returns n and returns None for C.
C15_AddThenRemove ==
    (last.op = "identify" /\ last.out.exc = "none") =>
        /\ (hist.op = "add" /\ KeywordIn(hist.cfg, last.col))
              => (last.out.found /\ last.out.name = hist.name)
        /\ hist.op = "remove" => ~(last.out.found /\ last.out.name = hist.name)
        /\ (hist.op = "remove" /\ KeywordIn(hist.cfg, last.col))
              => ~last.out.found

\* C15 amended: after add_custom_pattern(n, p), identify_field_type(C)
\* returns n, with p, exactly when p is the first pattern of the catalog, in
\* insertion order, that has a keyword in the lower-cased C (an overwritten
\* name keeps its place); after a remove_pattern(n) that follows, it never
\* returns n, and returns None exactly when no pattern left has a keyword in
\* C.  The call returns whenever every pattern carries keywords.
C15_AddThenRemoveAmended ==
    (last.op = "identify" /\ hist.op # "none") =>
        LET M == MatchSet(patterns, last.col)
            n == hist.name
        IN  /\ (hist.op = "add" /\ last.out.exc = "none") =>
                 /\ (last.out.found /\ last.out.name = n)
                       <=> (M # {} /\ patterns[Min(M)].name = n)
                 /\ (last.out.found /\ last.out.name = n)
                       => last.out.cfg = hist.cfg
            /\ (hist.op = "remove" /\ last.out.exc = "none") =>
                 /\ ~(last.out.found /\ last.out.name = n)
                 /\ ~last.out.found <=> M = {}
            /\ WellFormedKeywords(patterns) => last.out.exc = "none"

\* a pattern was added and removed again, and a column name holding one of
\* its keywords is identified as nothing
C15_Witness ==
    /\ last.op = "identify"
    /\ hist.op = "remove"
    /\ KeywordIn(hist.cfg, last.col)
    /\ last.out.exc = "none"
    /\ ~last.out.found

\* the types that the validation rules of the catalog name
KindsInUse(cat) ==
    {cat[i].cfg.validation.type :
        i \in {k \in 1..Len(cat) : /\ cat[k].cfg.validation.kind = "map"
                                   /\ cat[k].cfg.validation.type # ""}}

\* some pattern has no validation rule, or a rule that names no type
SomeUntyped(cat) ==
    \E i \in 1..Len(cat) :
        cat[i].cfg.validation.kind # "map" \/ cat[i].cfg.validation.type = ""

\* C16 as stated: get_pattern_summary reports total_patterns = the number of
\* patterns, pattern_types = the names of the catalog, and validation_types =
\* the validation kinds some pattern uses, nothing more and nothing less.
C16_SummaryExact ==
    (last.op = "summary" /\ last.out.exc = "none") =>
        /\ last.out.total_patterns = Len(patterns)
        /\ last.out.pattern_types = Names(patterns)
        /\ last.out.validation_types = KindsInUse(patterns)

\* C16 amended: validation_types holds the validation kinds some pattern
\* uses, and 'unknown' besides when some pattern has no validation rule or a
\* rule without a type; total_patterns and pattern_types are as stated.  The
\* call returns whenever no validation entry is null.
C16_SummaryExactAmended ==
    last.op = "summary" =>
        /\ last.out.exc = "none" =>
            /\ last.out.total_patterns = Len(patterns)
            /\ last.out.pattern_types = Names(patterns)
            /\ last.out.validation_types =
                  KindsInUse(patterns) \cup
                  (IF SomeUntyped(patterns) THEN {"unknown"} ELSE {})
        /\ (\A i \in 1..Len(patterns) : patterns[i].cfg.validation.kind # "null")
              => last.out.exc = "none"

\* the summary of a catalog that holds a pattern without a validation rule
C16_Witness ==
    /\ last.op = "summary"
    /\ last.out.exc = "none"
    /\ "unknown" \in last.out.validation_types
    /\ Cardinality(last.out.validation_types) >= 2
    /\ \E i \in 1..Len(patterns) : patterns[i].cfg.validation.kind = "absent"

\* C17: export_patterns returns false when the destination cannot be written
\* or the catalog cannot be serialized, and true when the document was
\* written; either way the catalog in memory, the dict that holds it and the
\* source it reloads from are as before.
C17_ExportReportsFailure ==
    [][last'.op = "export" =>
          LET dest == last'.name
              writable == files[dest].st # "locked"
              serializable == \A i \in 1..Len(patterns) : Serializable(patterns[i].cfg)
          IN  /\ last'.out = (writable /\ serializable)
              /\ last'.out = (/\ files'[dest].st = "json"
                              /\ files'[dest].key = "field_patterns"
                              /\ Equivalent(files'[dest].body, patterns))
              /\ ~writable => files'[dest] = files[dest]
              /\ patterns' = patterns
              /\ pid' = pid
              /\ config_file' = config_file]_vars

\* an export that json.dump gave up on, into a file that can be written
C17_Witness ==
    /\ last.op = "export"
    /\ last.out = FALSE
    /\ files[last.name].st = "garbage"
    /\ \E i \in 1..Len(patterns) : ~Serializable(patterns[i].cfg)

\* C18: whatever the catalog holds, profile_table returns a result for every
\* table the database can be read for, and profile_all_systems raises
\* nothing and calls profile_table for every table.
C18_NoAbort ==
    /\ (last.op = "profile_table" /\ last.out.table.db = "ok")
          => (last.out.result.exc = "none" /\ last.out.result.ret = "result")
    /\ last.op = "profile_all_systems"
          => (last.out.exc = "none" /\ Len(last.out.outcomes) = Len(SystemTables))

\* the float f is no nan and lies within the bounds the rule gives, a bound
\* the rule omits being no bound
InRange(f, validation) ==
    /\ f.kind # "nan"
    /\ validation.hasMin =>
          IF f.kind = "inf" THEN f.num > 0 ELSE validation.min * f.den <= f.num
    /\ validation.hasMax =>
          IF f.kind = "inf" THEN f.num < 0 ELSE f.num <= validation.max * f.den

\* C19: under a numeric rule a value is valid exactly when float() parses it;
\* under a numeric_range rule exactly when float() parses it to a number v
\* with min <= v <= max, both bounds included and an omitted bound unbounded.
C19_NumericRules ==
    (vs.op = "value" /\ vs.cfg.validation.kind = "map") =>
        LET validation == vs.cfg.validation
            f == float_of(vs.value)
        IN  /\ validation.type = "numeric" =>
                 (vs.out.exc = "none" /\ vs.out.ret = (f.exc = "none"))
            /\ validation.type = "numeric_range" =>
                 /\ vs.out.exc = "none"
                 /\ vs.out.ret = (f.exc = "none" /\ InRange(f, validation))

\* a value that equals the max of its numeric_range rule was found valid
C19_Witness ==
    /\ vs.op = "value"
    /\ vs.cfg.validation.type = "numeric_range"
    /\ vs.cfg.validation.hasMax
    /\ vs.value.ty = "str"
    /\ float_of(vs.value) = Fin(vs.cfg.validation.max, 1)
    /\ vs.out.ret

\* C20: under a pattern with no validation rule validate_field_value returns
\* true for every value, and _validate_field_sample on a non-empty sample
\* returns valid_percentage 100, is_valid true and no issues (the pattern
\* carrying the field_type that the sample loop reads).
C20_NoRuleAlwaysValid ==
    /\ (vs.op = "value" /\ vs.cfg.validation.kind = "absent")
          => (vs.out.exc = "none" /\ vs.out.ret)
    /\ (vs.op = "sample" /\ vs.cfg.validation.kind = "absent"
           /\ vs.sample # <<>> /\ vs.cfg.hasFieldType)
          => /\ vs.out.exc = "none"
             /\ vs.out.valid_percentage[1] = 100 * vs.out.valid_percentage[2]
             /\ vs.out.valid_count = Len(vs.sample)
             /\ vs.out.is_valid
             /\ vs.out.issues = <<>>

\* a sample of differing values was validated under a pattern without a rule
C20_Witness ==
    /\ vs.op = "sample"
    /\ vs.cfg.validation.kind = "absent"
    /\ vs.cfg.hasFieldType
    /\ Len(vs.sample) >= 2
    /\ \E k \in 1..Len(vs.sample) : vs.sample[k] = V_bad
    /\ vs.out.is_valid

\* the fraction <<numerator, denominator>> lies in (0, 1]
InUnitInterval(q) == q[2] > 0 /\ 0 < q[1] /\ q[1] <= q[2]

\* C21: the threshold used for a pattern is a fraction in (0, 1]: the rule's
\* own threshold when the rule gives one, and 0.7 when the rule omits it or
\* the pattern has no validation rule; get_validation_threshold returns it
\* and _validate_field_sample compares against 100 times it.
C21_ThresholdInUnitInterval ==
    /\ vs.op = "threshold" =>
          /\ vs.out.exc = "none"
          /\ vs.out.ret = ThresholdOf(vs.cfg)
          /\ InUnitInterval(vs.out.ret)
    /\ (vs.op = "sample" /\ vs.out.exc = "none") =>
          /\ vs.out.threshold[1] * ThresholdOf(vs.cfg)[2]
                = 100 * ThresholdOf(vs.cfg)[1] * vs.out.threshold[2]
          /\ InUnitInterval(<<vs.out.threshold[1], 100 * vs.out.threshold[2]>>)

\* the values of the sample that validate_field_value rejects, in input order
Rejected(sample, cfg) ==
    SelectSeq(sample, LAMBDA v : ~validate_field_value(cfg.field_type, v, cfg).ret)

\* the sample read from its end
Reversed(sample) == [k \in 1..Len(sample) |-> sample[Len(sample) + 1 - k]]

\* C22: the issues of _validate_field_sample are the first min(3, number of
\* rejected values) rejected values in input order; is_valid is determined
\* by the valid count, the total count and the pattern's threshold alone,
\* and the same sample in reverse order, whose issues are other ones, gets
\* the same counts and the same is_valid.
C22_IssuesFirstThree ==
    (vs.op = "sample" /\ vs.out.exc = "none") =>
        LET failing == Rejected(vs.sample, vs.cfg)
            o == _validate_field_sample(Reversed(vs.sample), vs.cfg)
        IN  /\ Len(vs.out.issues) <= 3
            /\ Len(vs.out.issues) = IF Len(failing) < 3 THEN Len(failing) ELSE 3
            /\ vs.out.issues = SubSeq(failing, 1, Len(vs.out.issues))
            /\ vs.out.is_valid <=>
                  (vs.out.valid_count * ThresholdOf(vs.cfg)[2]
                      >= ThresholdOf(vs.cfg)[1] * vs.out.total_count)
            /\ o.exc = "none"
            /\ o.valid_count = vs.out.valid_count
            /\ o.total_count = vs.out.total_count
            /\ o.is_valid = vs.out.is_valid

\* four values were rejected, the last differing from the first, and three
\* were reported
C22_Witness ==
    /\ vs.op = "sample"
    /\ vs.out.exc = "none"
    /\ Len(vs.sample) = 4
    /\ vs.out.valid_count = 0
    /\ vs.sample[4] # vs.sample[1]
    /\ Len(vs.out.issues) = 3
    /\ _validate_field_sample(Reversed(vs.sample), vs.cfg).issues # vs.out.issues

NamingLabels == <<"snake_case", "PascalCase", "UPPER_CASE">>

\* the casing test of each label, taken by itself
Classified(col_name, label) ==
    LET hasUpper == \E i \in 1..Len(col_name) : col_name[i] \in Uppers
        hasLower == \E i \in 1..Len(col_name) : col_name[i] \in Lowers
    IN  CASE label = "snake_case" ->
                 (\E i \in 1..Len(col_name) : col_name[i] = "_") /\ hasLower /\ ~hasUpper
          [] label = "PascalCase" -> col_name[1] \in Uppers /\ hasLower
          [] label = "UPPER_CASE" -> hasUpper /\ ~hasLower

\* strictly more than half of the columns are classified as the label
Majority(columns_info, label) ==
    2 * Cardinality({i \in 1..Len(columns_info) : Classified(columns_info[i], label)})
        > Len(columns_info)

\* C23: for a table's column names (at least one), _identify_naming_convention
\* returns a label of snake_case, PascalCase, UPPER_CASE exactly when strictly
\* more than 50% of the names are classified as that label, and mixed
\* otherwise; a share of exactly 50% is no majority.
C23_MajorityLabel ==
    (vs.op = "naming" /\ vs.columns_info # <<>>) =>
        /\ \A k \in 1..3 :
              vs.out = NamingLabels[k]
                  <=> Majority(vs.columns_info, NamingLabels[k])
        /\ vs.out = "mixed"
              <=> \A k \in 1..3 : ~Majority(vs.columns_info, NamingLabels[k])

\* two of four names are snake_case and the result is mixed
C23_Witness ==
    /\ vs.op = "naming"
    /\ Len(vs.columns_info) = 4
    /\ Cardinality({i \in 1..4 : Classified(vs.columns_info[i], "snake_case")}) = 2
    /\ vs.out = "mixed"

\* the label the tests give when they are made in the given order
TestedInOrder(columns_info, order) ==
    LET hits == {k \in 1..3 : Majority(columns_info, NamingLabels[order[k]])}
    IN  IF hits = {} THEN "mixed" ELSE NamingLabels[order[Min(hits)]]

\* C30: _identify_naming_convention returns unknown exactly when the column
\* list is empty and one of snake_case, PascalCase, UPPER_CASE, mixed
\* otherwise; no column name passes two of the casing tests, at most one
\* label has a majority, and the result is the same in whatever order the
\* labels are tested.
C30_NamingTotal ==
    vs.op = "naming" =>
        LET columns_info == vs.columns_info
        IN  /\ vs.out = "unknown" <=> columns_info = <<>>
            /\ columns_info # <<>> =>
                  vs.out \in {"snake_case", "PascalCase", "UPPER_CASE", "mixed"}
            /\ \A i \in 1..Len(columns_info) :
                  Cardinality({k \in 1..3 : Classified(columns_info[i], NamingLabels[k])}) <= 1
            /\ Cardinality({k \in 1..3 : Majority(columns_info, NamingLabels[k])}) <= 1
            /\ columns_info # <<>> =>
                  \A order \in {o \in [1..3 -> 1..3] : \A a, b \in 1..3 : o[a] = o[b] => a = b} :
                      vs.out = TestedInOrder(columns_info, order)

\* an upper-case majority beside a name that passes no test
C30_Witness ==
    /\ vs.op = "naming"
    /\ vs.out = "UPPER_CASE"
    /\ \E i \in 1..Len(vs.columns_info) :
          \A k \in 1..3 : ~Classified(vs.columns_info[i], NamingLabels[k])

\* C24: the mapping complexity of a profiled table is LOW when the number n
\* of potential issues collected for it is at most 1, MEDIUM when n is 2 or
\* 3, and HIGH when n is more than 3.
C24_ComplexityBands ==
    (last.op = "profile_table" /\ last.out.result.ret = "result") =>
        LET n == Len(last.out.result.mapping_insights.potential_issues)
            c == last.out.result.mapping_insights.mapping_complexity
        IN  /\ n <= 1 => c = "LOW"
            /\ n \in {2, 3} => c = "MEDIUM"
            /\ n > 3 => c = "HIGH"

\* a table with three issues was rated MEDIUM
C24_Witness ==
    /\ last.op = "profile_table"
    /\ last.out.result.ret = "result"
    /\ Len(last.out.result.mapping_insights.potential_issues) = 3
    /\ last.out.result.mapping_insights.mapping_complexity = "MEDIUM"

\* the position of a column name among the table's columns
ColumnAt(table, col) ==
    CHOOSE k \in 1..Len(table.columns_info) : table.columns_info[k] = col

\* C25: in every profile_table call, whatever the catalog and the table,
\* _validate_field_sample is called only for a column that has at least one
\* non-null sample value and that identify_field_type found a pattern for,
\* so never with total_count = 0, and no call ends in ZeroDivisionError.
C25_EmptySampleGuarded ==
    last.op = "profile_table" =>
        LET table == last.out.table
            validated == last.out.result.mapping_insights.validated
        IN  /\ last.out.result.exc # "ZeroDivisionError"
            /\ \A i \in 1..Len(validated) :
                  /\ validated[i].total_count > 0
                  /\ \E k \in 1..Len(table.columns_info) : table.columns_info[k] = validated[i].col
                  /\ validated[i].total_count
                        = Len(column_sample(table.sample_data, ColumnAt(table, validated[i].col)))
                  /\ identify_field_type(patterns, validated[i].col).found

\* a table was profiled in which an identified column is NULL in every row,
\* and that column was not validated
C25_Witness ==
    /\ last.op = "profile_table"
    /\ last.out.result.ret = "result"
    /\ Len(last.out.result.mapping_insights.validated) >= 3
    /\ \E k \in 1..Len(last.out.table.columns_info) :
          /\ Len(last.out.table.sample_data) > 0
          /\ Len(column_sample(last.out.table.sample_data, k)) = 0
          /\ identify_field_type(patterns, last.out.table.columns_info[k]).found
          /\ \A i \in 1..Len(last.out.result.mapping_insights.validated) :
                last.out.result.mapping_insights.validated[i].col
                    # last.out.table.columns_info[k]

\* the columns of an entry list
ColumnsOf(entries) == {entries[i].col : i \in 1..Len(entries)}

\* the columns that have a non-null sample value and an identified pattern
Qualifying(cat, table) ==
    IF table.sample_data = <<>> THEN {}
    ELSE {table.columns_info[k] : k \in
             {j \in 1..Len(table.columns_info) :
                 /\ Len(column_sample(table.sample_data, j)) > 0
                 /\ identify_field_type(cat, table.columns_info[j]).found}}

\* the sample of the column is valid under the pattern identified for it
SampleValid(cat, table, col) ==
    _validate_field_sample(column_sample(table.sample_data, ColumnAt(table, col)),
                           identify_field_type(cat, col).cfg).is_valid

\* every pattern has keywords, a field_type and a validation that is not null
WellFormed(cat) ==
    \A i \in 1..Len(cat) :
        /\ cat[i].cfg.hasKeywords
        /\ cat[i].cfg.hasFieldType
        /\ cat[i].cfg.validation.kind # "null"

\* C29: in the insights of a profiled table every column that has a non-null
\* sample value and an identified pattern has exactly one entry, in
\* data_type_notes when its sample is valid and in potential_issues when it
\* is not; the two lists together are as long as sample_patterns, and the
\* complexity is given by the number of columns whose sample is not valid.
\* The insights are returned whenever the database can be read and every
\* pattern has keywords, a field_type and a validation that is not null.
C29_OneEntryPerColumn ==
    last.op = "profile_table" =>
        LET table == last.out.table
            ins == last.out.result.mapping_insights
            Q == Qualifying(patterns, table)
            failing == {col \in Q : ~SampleValid(patterns, table, col)}
        IN  /\ last.out.result.ret = "result" =>
                /\ ColumnsOf(ins.data_type_notes) = Q \ failing
                /\ ColumnsOf(ins.potential_issues) = failing
                /\ ColumnsOf(ins.sample_patterns) = Q
                /\ Len(ins.data_type_notes) = Cardinality(Q \ failing)
                /\ Len(ins.potential_issues) = Cardinality(failing)
                /\ Len(ins.data_type_notes) + Len(ins.potential_issues)
                      = Len(ins.sample_patterns)
                /\ ins.mapping_complexity =
                      IF Cardinality(failing) > 3 THEN "HIGH"
                      ELSE IF Cardinality(failing) > 1 THEN "MEDIUM" ELSE "LOW"
            /\ (table.db = "ok" /\ WellFormed(patterns)) => last.out.result.ret = "result"

\* three columns failed with more than three rejected values among them, one
\* column was valid
C29_Witness ==
    /\ last.op = "profile_table"
    /\ last.out.result.ret = "result"
    /\ Len(last.out.result.mapping_insights.potential_issues) = 3
    /\ Len(last.out.result.mapping_insights.data_type_notes) = 1
    /\ Len(Flat([i \in 1..3 |->
                   last.out.result.mapping_insights.potential_issues[i].issues])) > 3

\* C26: whatever add_custom_pattern and remove_pattern did to the catalog, a
\* reload leaves the catalog a fresh load of the source gives: the source's
\* field_patterns mapping, or exactly the three defaults when the source
\* cannot be read, also when the catalog edited was itself the fallback.
C26_ReloadDiscardsEdits ==
    [][last'.op = "reload" =>
          LET f == files[config_file]
          IN  /\ last'.out.replaced = patterns
              /\ patterns' = _load_patterns(f).value
              /\ IF f.st = "json" /\ f.key = "field_patterns"
                 THEN patterns' = f.body
                 ELSE IsDefaultCatalog(patterns')]_vars

\* a fallback catalog that had got a custom pattern and lost email was
\* reloaded, the source still being unreadable
C26_Witness ==
    /\ last.op = "reload"
    /\ HasName(last.out.replaced, "sku")
    /\ ~HasName(last.out.replaced, "email")
    /\ Names(last.out.replaced) = <<"phone", "identifier", "sku">>
    /\ files[config_file].st # "json"
    /\ IsDefaultCatalog(patterns)

\* C27: add_custom_pattern with a new name puts the pattern last in the
\* order identify_field_type follows, so it is returned only for column
\* names no pattern matched before; with a name the catalog has, the
\* pattern keeps the position of that name; and adding a name right after
\* removing it puts it last.
C27_PriorityByRegistration ==
    [][last'.op = "add" =>
          LET name == last'.name
          IN  /\ HasName(patterns', name)
              /\ IF HasName(patterns, name)
                 THEN /\ Names(patterns') = Names(patterns)
                      /\ IndexOf(patterns', name) = IndexOf(patterns, name)
                 ELSE /\ Names(patterns') = Append(Names(patterns), name)
                      /\ IndexOf(patterns', name) = Len(patterns')
                      /\ \A c \in ColumnNames :
                            LET r == identify_field_type(patterns', c)
                            IN  (r.exc = "none" /\ r.found /\ r.name = name)
                                    => MatchSet(patterns, c) = {}
              /\ (last.op = "remove" /\ last.out = TRUE /\ last.name = name)
                    => IndexOf(patterns', name) = Len(patterns')]_vars

\* email, first in the defaults, was removed and registered again: it is last
C27_Witness ==
    /\ last.op = "add"
    /\ last.name = "email"
    /\ Names(patterns) = <<"phone", "identifier", "email">>
    /\ KeywordIn(patterns[3].cfg, <<"m","a","i","l","_","i","d">>)
    /\ identify_field_type(patterns, <<"m","a","i","l","_","i","d">>).name = "identifier"

\* C28: identify_field_type, validate_field_value, get_validation_threshold,
\* get_pattern_summary, export_patterns and _validate_field_sample leave the
\* catalog as it is, entry for entry and in the same dict object; the
\* catalog, which is all that identify_field_type reads beside the column
\* name, changes only in add_custom_pattern, remove_pattern and
\* reload_patterns.
C28_ReadsLeaveCatalog ==
    [][/\ (vs' # vs \/ nops' = nops \/ last'.op \in {"identify", "summary", "export"})
            => (patterns' = patterns /\ pid' = pid)
       /\ (patterns' # patterns \/ pid' # pid)
            => (nops' = nops + 1 /\ vs' = vs /\ last'.op \in {"add", "remove", "reload"})]_vars

\* a sample was validated under the pattern that had been registered, and
\* the catalog still holds that pattern
C28_Witness ==
    /\ vs.op = "sample"
    /\ vs.sample # <<>>
    /\ hist.op = "add"
    /\ vs.cfg = hist.cfg
    /\ last.op = "export"
    /\ \E i \in 1..Len(patterns) : patterns[i].name = hist.name /\ patterns[i].cfg = hist.cfg

====
